---- MODULE Spec2Model ----
(***************************************************************************)
(* Model of libindi-scope (indi/scope.hpp): the scope guards scope_exit,   *)
(* scope_fail and scope_success, run by a single thread whose lexical      *)
(* scopes form a stack.  The thread enters and leaves blocks, try blocks,  *)
(* catch handlers and destructor bodies, raises and catches exceptions,    *)
(* and constructs, moves, releases and destroys guards.  The model follows *)
(* one function object from the wrapping construction that binds it        *)
(* through every guard that comes to carry it.                             *)
(***************************************************************************)
EXTENDS Integers, Sequences, FiniteSets, TLC

\* ------------------------------------------------------------------------
\* Bounds of the model.
MaxGuards == 2
MaxDepth == 2
MaxCount == 2

\* std::numeric_limits<int>::max(), the value scope_fail::release stores.
IntMax == 2147483647

GuardIds == 1..MaxGuards

Variants == {"scope_exit", "scope_fail", "scope_success"}

\* ------------------------------------------------------------------------
\* Function objects handed to the guards.  Each type is described by the
\* traits the header queries statically and by what its constructors and
\* its call operator do when they run.
FunctorTypes ==
    {"functor_t", "noexcept_functor_t", "init_failure_functor_t",
     "fallible_copy_functor_t", "raising_functor_t",
     "raising_init_failure_functor_t"}

\* The function objects with which the constructors' exception
\* specifications are examined: those above, one whose move constructor is
\* noexcept(false) beside a non-throwing copy constructor, and one that can
\* only be moved.
TraitFunctorTypes ==
    FunctorTypes \cup {"move_throws_functor_t", "move_only_functor_t"}

\* std::is_constructible_v<F, F&>
Copyable(ft) == ft # "move_only_functor_t"

\* std::is_nothrow_move_constructible_v<F>
NothrowMove(ft) ==
    ft \in {"functor_t", "noexcept_functor_t", "raising_functor_t",
            "move_only_functor_t"}

\* std::is_nothrow_copy_constructible_v<F>
NothrowCopy(ft) ==
    ft \in {"functor_t", "noexcept_functor_t", "raising_functor_t",
            "move_throws_functor_t"}

\* What a run of the copy constructor can do: TRUE when it can raise, FALSE
\* when it can complete.  The functor of the initialisation-failure test
\* always raises, and so does one like it whose call operator raises too; a
\* functor that acquires a resource when copied sometimes does.
CopyCtorThrows(ft) ==
    CASE ft = "init_failure_functor_t" -> {TRUE}
      [] ft = "raising_init_failure_functor_t" -> {TRUE}
      [] ft = "fallible_copy_functor_t" -> {TRUE, FALSE}
      [] OTHER -> {FALSE}

\* The move constructor raises when it runs: that of the functor acquiring
\* a resource, declared noexcept(false), does.
MoveCtorThrows(ft) == ft = "fallible_copy_functor_t"

\* noexcept(f())
ActionNoexcept(ft) == ft = "noexcept_functor_t"

\* The call operator raises after doing its work.
ActionThrows(ft) ==
    ft \in {"raising_functor_t", "raising_init_failure_functor_t"}

\* ------------------------------------------------------------------------
\* Program state.
VARIABLES
    guards,     \* guard id -> the guard object and its history
    wrapping,   \* the wrapping construction: what was wrapped, how it went
    calls,      \* number of invocations of the function object
    stack,      \* lexical scopes of the thread, innermost last
    inflight,   \* exceptions raised and not yet caught, newest last; each
                \* remembers whether the wrapping construction preceded it
    mode,       \* "run", "unwind" or "terminated"
    last        \* the guard operation the latest step performed, if any:
                \* which operation on which guard; for a constructor the
                \* value category of its argument and of the initializer
                \* it chose; for a destructor how the guard's scope was
                \* left, what std::uncaught_exceptions() returned and
                \* whether an exception raised after the wrapping
                \* construction was in flight; and how the operation ended

vars == <<guards, wrapping, calls, stack, inflight, mode, last>>

\* std::uncaught_exceptions()
uncaught_exceptions == Len(inflight)

NoGuard ==
    [st |-> "none", kind |-> "scope_exit",
     execute_on_destruction |-> TRUE, uncaught_on_creation |-> 0,
     parent |-> 0, released |-> FALSE, moved |-> FALSE, disarmed |-> FALSE,
     fired |-> FALSE]

NoDestruction ==
    [g |-> 0, how |-> "none", count |-> 0, new |-> FALSE, out |-> "none",
     arg |-> "none", init |-> "none"]

NotWrapped ==
    [st |-> "unused", kind |-> "scope_exit", ftype |-> "functor_t",
     byRef |-> FALSE, base |-> 0, raised |-> "none"]

Frame(k) == [kind |-> k, guards |-> <<>>]

Init ==
    /\ guards = [g \in GuardIds |-> NoGuard]
    /\ wrapping = NotWrapped
    /\ calls = 0
    /\ stack = <<Frame("block")>>
    /\ inflight = <<>>
    /\ mode = "run"
    /\ last = NoDestruction

\* ------------------------------------------------------------------------
\* Helpers on the state.
Top == stack[Len(stack)]

Front(s) == SubSeq(s, 1, Len(s) - 1)

Last(s) == s[Len(s)]

FreeGuards == {g \in GuardIds : guards[g].st = "none"}

LiveGuards == {g \in GuardIds : guards[g].st = "live"}

NewGuard == CHOOSE g \in FreeGuards : \A h \in FreeGuards : g <= h

PushGuard(g) ==
    [stack EXCEPT ![Len(stack)].guards = Append(@, g)]

\* An exception raised now.
Raised ==
    [since |-> wrapping.st = "ok"]

\* An exception raised after the wrapping construction is in flight.
NewErrorInFlight ==
    \E i \in DOMAIN inflight : inflight[i].since

\* The function object is still to be wrapped, or a live guard carries it,
\* or the error of its failed wrapping is on its way to a handler: the steps
\* of the thread are followed as long as this holds.
Followed ==
    \/ wrapping.st = "unused"
    \/ LiveGuards # {}
    \/ wrapping.st = "failed" /\ mode = "unwind"

RemoveGuard(g) ==
    [i \in DOMAIN stack |->
        [stack[i] EXCEPT !.guards = SelectSeq(@, LAMBDA x : x # g)]]

\* ------------------------------------------------------------------------
\* std::forward<U>(u) in the place of move_init_if_noexcept: an rvalue
\* argument is always handed on as an rvalue.
move_init_forward(isLvalueRef, nothrowCons) ==
    IF isLvalueRef THEN "lvalue" ELSE "rvalue"

\* _detail_X_scope::move_init_if_noexcept<T, U>: the value category of the
\* initializer handed to T's constructor.  isLvalueRef is
\* std::is_lvalue_reference_v<U>, nothrowCons is
\* std::is_nothrow_constructible_v<T, U>.
move_init_if_noexcept(isLvalueRef, nothrowCons) ==
    IF isLvalueRef
        THEN "lvalue"
        ELSE IF nothrowCons THEN "rvalue" ELSE "lvalue"

\* std::is_constructible_v in the place of std::is_nothrow_constructible_v.
is_nothrow_constructible_as_constructible(ft, byRef, arg) ==
    TRUE

\* std::is_nothrow_constructible_v<EF, EFP> for a function object of type ft
\* stored by reference (EF = F&) or by value (EF = F), the argument being an
\* lvalue (EFP = F&) or an rvalue (EFP = F).
is_nothrow_constructible(ft, byRef, arg) ==
    IF byRef
        THEN TRUE
        ELSE IF arg = "rvalue" THEN NothrowMove(ft) ELSE NothrowCopy(ft)

\* A member _exit_function that is an object even when EF is a reference
\* type: its initialisation always runs a constructor.
InitRaises_decayed(ft, byRef, cat, copyThrows) ==
    IF cat = "rvalue" THEN MoveCtorThrows(ft) ELSE copyThrows

\* Initialising the member _exit_function from an initializer of value
\* category cat: binding a reference never raises, an rvalue runs the move
\* constructor, an lvalue the copy constructor, which raises when
\* copyThrows says so.
InitRaises(ft, byRef, cat, copyThrows) ==
    /\ ~byRef
    /\ IF cat = "rvalue" THEN MoveCtorThrows(ft) ELSE copyThrows

\* The combinations of storage and argument the static_asserts accept.
CtorArgs ==
    {a \in [byRef : BOOLEAN, arg : {"lvalue", "rvalue"}] :
        a.byRef => a.arg = "lvalue"}

\* The requirement the constructors assert statically:
\* is_nothrow_constructible_v<EF, EFP> or is_constructible_v<EF, EFP&>.
Constructible(ft, a) ==
    is_nothrow_constructible(ft, a.byRef, a.arg) \/ a.byRef \/ Copyable(ft)

\* An exception specification of the wrapping constructors that asks only
\* whether EF can be constructed from the argument as it was passed.
ctor_noexcept_as_passed(ft, byRef, arg) ==
    is_nothrow_constructible(ft, byRef, arg)

\* The exception specification of the wrapping constructors:
\* noexcept(is_nothrow_constructible_v<EF, EFP>
\*              or is_nothrow_constructible_v<EF, EFP&>).
ctor_noexcept(ft, byRef, arg) ==
    \/ is_nothrow_constructible(ft, byRef, arg)
    \/ is_nothrow_constructible(ft, byRef, "lvalue")

\* The exception specification of the move constructors:
\* noexcept(is_nothrow_move_constructible_v<EF>
\*              or is_nothrow_copy_constructible_v<EF>).
move_ctor_noexcept(ft, byRef) ==
    \/ is_nothrow_constructible(ft, byRef, "rvalue")
    \/ is_nothrow_constructible(ft, byRef, "lvalue")

\* ------------------------------------------------------------------------
\* scope_exit

\* scope_exit's constructor without the function-try-block: a failed
\* initialisation leaves without calling f().
scope_exit_ctor_no_handler(ft, byRef, arg, copyThrows) ==
    LET cat == move_init_if_noexcept(arg = "lvalue",
                                     is_nothrow_constructible(ft, byRef, arg))
        threw == InitRaises(ft, byRef, cat, copyThrows)
    IN  [threw |-> threw,
         init |-> cat,
         handlerCalls |-> FALSE,
         execute_on_destruction |-> TRUE,
         uncaught_on_creation |-> 0]

\* scope_exit::scope_exit(EFP&&): threw says whether the initialisation of
\* _exit_function raised, handlerCalls whether the catch (...) handler of
\* the function-try-block invoked f().
scope_exit_ctor(ft, byRef, arg, copyThrows) ==
    LET cat == move_init_if_noexcept(arg = "lvalue",
                                     is_nothrow_constructible(ft, byRef, arg))
        threw == InitRaises(ft, byRef, cat, copyThrows)
    IN  [threw |-> threw,
         init |-> cat,
         handlerCalls |-> threw,
         execute_on_destruction |-> TRUE,
         uncaught_on_creation |-> 0]

\* scope_exit's release() flipping the flag instead of clearing it.
scope_exit_release_toggle(g) ==
    [g EXCEPT !.execute_on_destruction = ~@]

\* scope_exit::release()
scope_exit_release(g) ==
    [g EXCEPT !.execute_on_destruction = FALSE]

\* scope_exit's move constructor without the call of other.release().
scope_exit_move_keeps_other(other, ft, byRef, copyThrows) ==
    LET cat == move_init_if_noexcept(byRef, NothrowMove(ft))
        threw == InitRaises(ft, byRef, cat, copyThrows)
    IN  [threw |-> threw,
         init |-> cat,
         execute_on_destruction |-> other.execute_on_destruction,
         uncaught_on_creation |-> 0,
         other |-> other]

\* scope_exit's move constructor arming the new guard whatever other's flag.
scope_exit_move_arms(other, ft, byRef, copyThrows) ==
    LET cat == move_init_if_noexcept(byRef, NothrowMove(ft))
        threw == InitRaises(ft, byRef, cat, copyThrows)
    IN  [threw |-> threw,
         init |-> cat,
         execute_on_destruction |-> TRUE,
         uncaught_on_creation |-> 0,
         other |-> IF threw THEN other ELSE scope_exit_release(other)]

\* scope_exit::scope_exit(scope_exit&&): the new guard's members and the
\* state other is left in.
scope_exit_move(other, ft, byRef, copyThrows) ==
    LET cat == move_init_if_noexcept(byRef, NothrowMove(ft))
        threw == InitRaises(ft, byRef, cat, copyThrows)
    IN  [threw |-> threw,
         init |-> cat,
         execute_on_destruction |-> other.execute_on_destruction,
         uncaught_on_creation |-> 0,
         other |-> IF threw THEN other ELSE scope_exit_release(other)]

\* scope_exit's destructor calling only when no exception is in flight.
scope_exit_dtor_on_success_only(g, c) ==
    g.execute_on_destruction /\ c = 0

\* scope_exit::~scope_exit(): whether _exit_function() is called.
scope_exit_dtor(g, c) ==
    g.execute_on_destruction

\* ------------------------------------------------------------------------
\* scope_fail

\* scope_fail's constructor whose handler calls f() only when an exception
\* was already in flight.
scope_fail_ctor_handler_if_unwinding(ft, byRef, arg, c, copyThrows) ==
    LET cat == move_init_if_noexcept(arg = "lvalue",
                                     is_nothrow_constructible(ft, byRef, arg))
        threw == InitRaises(ft, byRef, cat, copyThrows)
    IN  [threw |-> threw,
         init |-> cat,
         handlerCalls |-> threw /\ c > 0,
         execute_on_destruction |-> TRUE,
         uncaught_on_creation |-> c]

\* scope_fail::scope_fail(EFP&&), c being std::uncaught_exceptions().
scope_fail_ctor(ft, byRef, arg, c, copyThrows) ==
    LET cat == move_init_if_noexcept(arg = "lvalue",
                                     is_nothrow_constructible(ft, byRef, arg))
        threw == InitRaises(ft, byRef, cat, copyThrows)
    IN  [threw |-> threw,
         init |-> cat,
         handlerCalls |-> threw,
         execute_on_destruction |-> TRUE,
         uncaught_on_creation |-> c]

\* scope_fail's release() storing zero instead of the largest int.
scope_fail_release_zero(g) ==
    [g EXCEPT !.uncaught_on_creation = 0]

\* scope_fail's release() storing scope_success's sentinel.
scope_fail_release_minus_one(g) ==
    [g EXCEPT !.uncaught_on_creation = -1]

\* scope_fail::release()
scope_fail_release(g) ==
    [g EXCEPT !.uncaught_on_creation = IntMax]

\* scope_fail's move constructor leaving the baseline at its default member
\* initializer instead of copying other's.
scope_fail_move_default_baseline(other, ft, byRef, copyThrows) ==
    LET cat == move_init_if_noexcept(byRef, NothrowMove(ft))
        threw == InitRaises(ft, byRef, cat, copyThrows)
    IN  [threw |-> threw,
         init |-> cat,
         execute_on_destruction |-> TRUE,
         uncaught_on_creation |-> 0,
         other |-> IF threw THEN other
                   ELSE [other EXCEPT !.uncaught_on_creation = IntMax]]

\* scope_fail's move constructor without the call of other.release().
scope_fail_move_keeps_other(other, ft, byRef, copyThrows) ==
    LET cat == move_init_if_noexcept(byRef, NothrowMove(ft))
        threw == InitRaises(ft, byRef, cat, copyThrows)
    IN  [threw |-> threw,
         init |-> cat,
         execute_on_destruction |-> TRUE,
         uncaught_on_creation |-> other.uncaught_on_creation,
         other |-> other]

\* scope_fail's move constructor calling other.release() before the member
\* is initialised.
scope_fail_move_releases_first(other, ft, byRef, copyThrows) ==
    LET cat == move_init_if_noexcept(byRef, NothrowMove(ft))
        threw == InitRaises(ft, byRef, cat, copyThrows)
    IN  [threw |-> threw,
         init |-> cat,
         execute_on_destruction |-> TRUE,
         uncaught_on_creation |-> other.uncaught_on_creation,
         other |-> scope_fail_release(other)]

\* scope_fail::scope_fail(scope_fail&&)
scope_fail_move(other, ft, byRef, copyThrows) ==
    LET cat == move_init_if_noexcept(byRef, NothrowMove(ft))
        threw == InitRaises(ft, byRef, cat, copyThrows)
    IN  [threw |-> threw,
         init |-> cat,
         execute_on_destruction |-> TRUE,
         uncaught_on_creation |-> other.uncaught_on_creation,
         other |-> IF threw THEN other ELSE scope_fail_release(other)]

\* scope_fail's destructor testing for "an exception is in flight" instead
\* of comparing with the baseline.
scope_fail_dtor_any(g, c) ==
    c > 0 /\ g.uncaught_on_creation < IntMax

\* scope_fail's destructor comparing with >= instead of >.
scope_fail_dtor_ge(g, c) ==
    c >= g.uncaught_on_creation

\* scope_fail::~scope_fail(), c being std::uncaught_exceptions().
scope_fail_dtor(g, c) ==
    c > g.uncaught_on_creation

\* ------------------------------------------------------------------------
\* scope_success

\* scope_success's constructor with the function-try-block of the other two
\* variants.
scope_success_ctor_with_handler(ft, byRef, arg, c, copyThrows) ==
    LET cat == move_init_if_noexcept(arg = "lvalue",
                                     is_nothrow_constructible(ft, byRef, arg))
        threw == InitRaises(ft, byRef, cat, copyThrows)
    IN  [threw |-> threw,
         init |-> cat,
         handlerCalls |-> threw,
         execute_on_destruction |-> TRUE,
         uncaught_on_creation |-> c]

\* scope_success::scope_success(EFP&&): no function-try-block, so a failed
\* initialisation leaves the constructor at once.
scope_success_ctor(ft, byRef, arg, c, copyThrows) ==
    LET cat == move_init_if_noexcept(arg = "lvalue",
                                     is_nothrow_constructible(ft, byRef, arg))
        threw == InitRaises(ft, byRef, cat, copyThrows)
    IN  [threw |-> threw,
         init |-> cat,
         handlerCalls |-> FALSE,
         execute_on_destruction |-> TRUE,
         uncaught_on_creation |-> c]

\* scope_success's release() lowering the baseline by one instead of storing
\* the sentinel.
scope_success_release_decrement(g) ==
    [g EXCEPT !.uncaught_on_creation = @ - 1]

\* scope_success's release() storing zero, the least number of exceptions
\* that can be in flight.
scope_success_release_zero(g) ==
    [g EXCEPT !.uncaught_on_creation = 0]

\* scope_success::release()
scope_success_release(g) ==
    [g EXCEPT !.uncaught_on_creation = -1]

\* scope_success's move constructor without the call of other.release().
scope_success_move_keeps_other(other, ft, byRef, copyThrows) ==
    LET cat == move_init_if_noexcept(byRef, NothrowMove(ft))
        threw == InitRaises(ft, byRef, cat, copyThrows)
    IN  [threw |-> threw,
         init |-> cat,
         execute_on_destruction |-> TRUE,
         uncaught_on_creation |-> other.uncaught_on_creation,
         other |-> other]

\* scope_success's move constructor taking its baseline from
\* std::uncaught_exceptions() as the wrapping constructor does.
scope_success_move_resamples(other, ft, byRef, copyThrows) ==
    LET cat == move_init_if_noexcept(byRef, NothrowMove(ft))
        threw == InitRaises(ft, byRef, cat, copyThrows)
    IN  [threw |-> threw,
         init |-> cat,
         execute_on_destruction |-> TRUE,
         uncaught_on_creation |-> uncaught_exceptions,
         other |-> IF threw THEN other ELSE scope_success_release(other)]

\* scope_success::scope_success(scope_success&&)
scope_success_move(other, ft, byRef, copyThrows) ==
    LET cat == move_init_if_noexcept(byRef, NothrowMove(ft))
        threw == InitRaises(ft, byRef, cat, copyThrows)
    IN  [threw |-> threw,
         init |-> cat,
         execute_on_destruction |-> TRUE,
         uncaught_on_creation |-> other.uncaught_on_creation,
         other |-> IF threw THEN other ELSE scope_success_release(other)]

\* scope_success's destructor testing for "no exception in flight" instead
\* of comparing with the baseline.
scope_success_dtor_no_baseline(g, c) ==
    c <= 0 /\ g.uncaught_on_creation >= 0

\* scope_success's destructor comparing with == instead of <=.
scope_success_dtor_eq(g, c) ==
    c = g.uncaught_on_creation

\* scope_success's destructor comparing with < instead of <=.
scope_success_dtor_lt(g, c) ==
    c < g.uncaught_on_creation

\* scope_success::~scope_success(), c being std::uncaught_exceptions().
scope_success_dtor(g, c) ==
    c <= g.uncaught_on_creation

\* Every destructor left without an exception specification, ~scope_success
\* included.
DtorNoexcept_always(kind, ft) ==
    TRUE

\* Every destructor declared noexcept(noexcept(_exit_function())), as
\* ~scope_success is.
DtorNoexcept_of_action(kind, ft) ==
    ActionNoexcept(ft)

\* noexcept-ness of the destructors: ~scope_exit and ~scope_fail carry no
\* exception specification and are therefore noexcept; ~scope_success is
\* noexcept(noexcept(_exit_function())).
DtorNoexcept(kind, ft) ==
    IF kind = "scope_success" THEN ActionNoexcept(ft) ELSE TRUE

\* ------------------------------------------------------------------------
\* Dispatch on the variant.
Ctor(kind, ft, byRef, arg, c, copyThrows) ==
    CASE kind = "scope_exit" ->
            scope_exit_ctor(ft, byRef, arg, copyThrows)
      [] kind = "scope_fail" ->
            scope_fail_ctor(ft, byRef, arg, c, copyThrows)
      [] kind = "scope_success" ->
            scope_success_ctor(ft, byRef, arg, c, copyThrows)

MoveCtor(other, ft, byRef, copyThrows) ==
    CASE other.kind = "scope_exit" ->
            scope_exit_move(other, ft, byRef, copyThrows)
      [] other.kind = "scope_fail" ->
            scope_fail_move(other, ft, byRef, copyThrows)
      [] other.kind = "scope_success" ->
            scope_success_move(other, ft, byRef, copyThrows)

ReleaseOf(g) ==
    CASE g.kind = "scope_exit" -> scope_exit_release(g)
      [] g.kind = "scope_fail" -> scope_fail_release(g)
      [] g.kind = "scope_success" -> scope_success_release(g)

DtorCalls(g, c) ==
    CASE g.kind = "scope_exit" -> scope_exit_dtor(g, c)
      [] g.kind = "scope_fail" -> scope_fail_dtor(g, c)
      [] g.kind = "scope_success" -> scope_success_dtor(g, c)

\* ------------------------------------------------------------------------
\* Steps of the thread.

\* Control enters a nested block or a try block.
EnterScope(k) ==
    /\ Followed
    /\ mode = "run"
    /\ Len(stack) < MaxDepth
    /\ stack' = Append(stack, Frame(k))
    /\ last' = NoDestruction
    /\ UNCHANGED <<guards, wrapping, calls, inflight, mode>>

\* A guard is declared in the innermost scope and its wrapping constructor
\* completes.
Construct(kind, ft, a, copyThrows) ==
    LET r == Ctor(kind, ft, a.byRef, a.arg, uncaught_exceptions, copyThrows)
        g == NewGuard
    IN  /\ mode = "run"
        /\ wrapping.st = "unused"
        /\ FreeGuards # {}
        /\ ~r.threw
        /\ wrapping' =
                [st |-> "ok", kind |-> kind, ftype |-> ft, byRef |-> a.byRef,
                 base |-> uncaught_exceptions, raised |-> "none"]
        /\ guards' = [guards EXCEPT ![g] =
                [NoGuard EXCEPT
                    !.st = "live", !.kind = kind,
                    !.execute_on_destruction = r.execute_on_destruction,
                    !.uncaught_on_creation = r.uncaught_on_creation]]
        /\ stack' = PushGuard(g)
        /\ last' = [NoDestruction EXCEPT
                        !.g = g, !.how = "construct", !.out = "returned",
                        !.arg = a.arg, !.init = r.init]
        /\ UNCHANGED <<calls, inflight, mode>>

\* A failing wrapping construction whose handler catches what f() raises, so
\* that the error of the initialisation is always the one rethrown.
ConstructFails_handler_catches(kind, ft, a, copyThrows) ==
    LET r == Ctor(kind, ft, a.byRef, a.arg, uncaught_exceptions, copyThrows)
    IN  /\ mode = "run"
        /\ wrapping.st = "unused"
        /\ r.threw
        /\ wrapping' =
                [st |-> "failed", kind |-> kind, ftype |-> ft,
                 byRef |-> a.byRef, base |-> uncaught_exceptions,
                 raised |-> "init"]
        /\ calls' = IF r.handlerCalls THEN calls + 1 ELSE calls
        /\ inflight' = Append(inflight, Raised)
        /\ mode' = "unwind"
        /\ last' = [NoDestruction EXCEPT
                        !.how = "construct", !.out = "raised",
                        !.arg = a.arg, !.init = r.init]
        /\ UNCHANGED <<guards, stack>>

\* A guard is declared but initialising _exit_function raises: the handler
\* of the function-try-block (if the variant has one) calls f(), then the
\* error of the initialisation is rethrown; an error raised by f() itself
\* leaves the handler in its place.
ConstructFails(kind, ft, a, copyThrows) ==
    LET r == Ctor(kind, ft, a.byRef, a.arg, uncaught_exceptions, copyThrows)
        err == IF r.handlerCalls /\ ActionThrows(ft) THEN "action" ELSE "init"
    IN  /\ mode = "run"
        /\ wrapping.st = "unused"
        /\ r.threw
        /\ wrapping' =
                [st |-> "failed", kind |-> kind, ftype |-> ft,
                 byRef |-> a.byRef, base |-> uncaught_exceptions,
                 raised |-> err]
        /\ calls' = IF r.handlerCalls THEN calls + 1 ELSE calls
        /\ inflight' = Append(inflight, Raised)
        /\ mode' = "unwind"
        /\ last' = [NoDestruction EXCEPT
                        !.how = "construct", !.out = "raised",
                        !.arg = a.arg, !.init = r.init]
        /\ UNCHANGED <<guards, stack>>

\* A move constructor that calls the action of the guard it moves from.
MoveConstruct_calls(src, copyThrows) ==
    LET other == guards[src]
        r == MoveCtor(other, wrapping.ftype, wrapping.byRef, copyThrows)
        g == NewGuard
    IN  /\ mode = "run"
        /\ src \in LiveGuards
        /\ copyThrows \in CopyCtorThrows(wrapping.ftype)
        /\ FreeGuards # {}
        /\ ~r.threw
        /\ guards' = [guards EXCEPT
                ![src] = [r.other EXCEPT !.moved = TRUE, !.disarmed = TRUE],
                ![g] = [NoGuard EXCEPT
                    !.st = "live", !.kind = other.kind, !.parent = src,
                    !.disarmed = other.disarmed,
                    !.execute_on_destruction = r.execute_on_destruction,
                    !.uncaught_on_creation = r.uncaught_on_creation]]
        /\ stack' = PushGuard(g)
        /\ calls' = calls + 1
        /\ last' = [NoDestruction EXCEPT
                        !.g = g, !.how = "move", !.out = "returned",
                        !.arg = "rvalue", !.init = r.init]
        /\ UNCHANGED <<wrapping, inflight, mode>>

\* A guard in the innermost scope is move-constructed from a live guard.
MoveConstruct(src, copyThrows) ==
    LET other == guards[src]
        r == MoveCtor(other, wrapping.ftype, wrapping.byRef, copyThrows)
        g == NewGuard
    IN  /\ mode = "run"
        /\ src \in LiveGuards
        /\ copyThrows \in CopyCtorThrows(wrapping.ftype)
        /\ FreeGuards # {}
        /\ ~r.threw
        /\ guards' = [guards EXCEPT
                ![src] = [r.other EXCEPT !.moved = TRUE, !.disarmed = TRUE],
                ![g] = [NoGuard EXCEPT
                    !.st = "live", !.kind = other.kind, !.parent = src,
                    !.disarmed = other.disarmed,
                    !.execute_on_destruction = r.execute_on_destruction,
                    !.uncaught_on_creation = r.uncaught_on_creation]]
        /\ stack' = PushGuard(g)
        /\ last' = [NoDestruction EXCEPT
                        !.g = g, !.how = "move", !.out = "returned",
                        !.arg = "rvalue", !.init = r.init]
        /\ UNCHANGED <<wrapping, calls, inflight, mode>>

\* Move construction whose initialisation of _exit_function raises: the body
\* of the move constructor is never reached.
MoveConstructFails(src, copyThrows) ==
    LET other == guards[src]
        r == MoveCtor(other, wrapping.ftype, wrapping.byRef, copyThrows)
    IN  /\ mode = "run"
        /\ src \in LiveGuards
        /\ copyThrows \in CopyCtorThrows(wrapping.ftype)
        /\ r.threw
        /\ guards' = [guards EXCEPT ![src] = r.other]
        /\ inflight' = Append(inflight, Raised)
        /\ mode' = "unwind"
        /\ last' = [NoDestruction EXCEPT
                        !.how = "move", !.out = "raised",
                        !.arg = "rvalue", !.init = r.init]
        /\ UNCHANGED <<wrapping, calls, stack>>

\* A release() that calls the action before it disarms the guard.
Release_calls(g) ==
    /\ mode = "run"
    /\ g \in LiveGuards
    /\ guards' = [guards EXCEPT
            ![g] = [ReleaseOf(guards[g]) EXCEPT
                        !.released = TRUE, !.disarmed = TRUE]]
    /\ calls' = calls + 1
    /\ last' = [NoDestruction EXCEPT
                    !.g = g, !.how = "release", !.out = "returned"]
    /\ UNCHANGED <<wrapping, stack, inflight, mode>>

\* release() is called on a live guard: it is noexcept and only assigns to
\* a data member.
Release(g) ==
    /\ mode = "run"
    /\ g \in LiveGuards
    /\ guards' = [guards EXCEPT
            ![g] = [ReleaseOf(guards[g]) EXCEPT
                        !.released = TRUE, !.disarmed = TRUE]]
    /\ last' = [NoDestruction EXCEPT
                    !.g = g, !.how = "release", !.out = "returned"]
    /\ UNCHANGED <<wrapping, calls, stack, inflight, mode>>

\* A destructor that catches and drops what the action raises.
Destroy_swallows(g, how) ==
    LET fires == DtorCalls(guards[g], uncaught_exceptions)
    IN  /\ guards' = [guards EXCEPT ![g].st = "dead", ![g].fired = fires]
        /\ last' = [g |-> g, how |-> how, count |-> uncaught_exceptions,
                    new |-> NewErrorInFlight, out |-> "returned",
                    arg |-> "none", init |-> "none"]
        /\ calls' = IF fires THEN calls + 1 ELSE calls
        /\ stack' = RemoveGuard(g)
        /\ UNCHANGED <<wrapping, inflight, mode>>

\* The destructor of guard g runs; how is "normal" when control leaves the
\* guard's scope, "unwind" when an exception does.  An exception leaving a
\* noexcept destructor, or any destructor during unwinding, ends in
\* std::terminate.
Destroy(g, how) ==
    LET fires == DtorCalls(guards[g], uncaught_exceptions)
        raises == fires /\ ActionThrows(wrapping.ftype)
        escapes == /\ raises
                   /\ ~DtorNoexcept(guards[g].kind, wrapping.ftype)
                   /\ how = "normal"
    IN  /\ guards' = [guards EXCEPT ![g].st = "dead", ![g].fired = fires]
        /\ last' = [g |-> g, how |-> how, count |-> uncaught_exceptions,
                    new |-> NewErrorInFlight,
                    out |-> IF escapes THEN "raised"
                            ELSE IF raises THEN "terminated" ELSE "returned",
                    arg |-> "none", init |-> "none"]
        /\ calls' = IF fires THEN calls + 1 ELSE calls
        /\ stack' = RemoveGuard(g)
        /\ inflight' = IF escapes THEN Append(inflight, Raised)
                       ELSE inflight
        /\ mode' = IF escapes THEN "unwind"
                   ELSE IF raises THEN "terminated" ELSE mode
        /\ UNCHANGED wrapping

\* Control reaches the end of the innermost scope with guards still alive.
ExitDestroy ==
    /\ mode = "run"
    /\ Len(stack) > 0
    /\ Top.guards # <<>>
    /\ Destroy(Last(Top.guards), "normal")

\* Control leaves the innermost scope, all its guards being destroyed; the
\* end of a destructor body resumes the unwinding that called it.
LeaveScope ==
    /\ Followed
    /\ mode = "run"
    /\ Len(stack) > 1
    /\ Top.guards = <<>>
    /\ stack' = Front(stack)
    /\ mode' = IF Top.kind = "dtor" THEN "unwind" ELSE "run"
    /\ last' = NoDestruction
    /\ UNCHANGED <<guards, wrapping, calls, inflight>>

\* throw: an exception is raised by the code of the innermost scope.
Throw ==
    /\ Followed
    /\ mode = "run"
    /\ inflight' = Append(inflight, Raised)
    /\ mode' = "unwind"
    /\ last' = NoDestruction
    /\ UNCHANGED <<guards, wrapping, calls, stack>>

\* Unwinding destroys the youngest guard of the innermost scope.
UnwindDestroy ==
    /\ mode = "unwind"
    /\ Len(stack) > 0
    /\ Top.guards # <<>>
    /\ Destroy(Last(Top.guards), "unwind")

\* Unwinding calls the destructor of another local object, whose body is
\* ordinary code.
EnterDtor ==
    /\ Followed
    /\ mode = "unwind"
    /\ Len(stack) > 0
    /\ Len(stack) < MaxDepth
    /\ stack' = Append(stack, Frame("dtor"))
    /\ mode' = "run"
    /\ last' = NoDestruction
    /\ UNCHANGED <<guards, wrapping, calls, inflight>>

\* Unwinding leaves a scope that has no guards left and does not catch.
UnwindPop ==
    /\ Followed
    /\ mode = "unwind"
    /\ Len(stack) > 0
    /\ Top.guards = <<>>
    /\ Top.kind = "block"
    /\ stack' = Front(stack)
    /\ mode' = IF Len(stack) = 1 THEN "terminated" ELSE "unwind"
    /\ last' = NoDestruction
    /\ UNCHANGED <<guards, wrapping, calls, inflight>>

\* The exception reaches the handler of the try block: it is caught and the
\* handler's body, a block in the place of the try block, starts.
Catch ==
    /\ Followed
    /\ mode = "unwind"
    /\ Len(stack) > 0
    /\ Top.guards = <<>>
    /\ Top.kind = "try"
    /\ inflight' = Front(inflight)
    /\ stack' = [stack EXCEPT ![Len(stack)] = Frame("block")]
    /\ mode' = "run"
    /\ last' = NoDestruction
    /\ UNCHANGED <<guards, wrapping, calls>>

\* The exception tries to leave a destructor body: std::terminate.
DtorTerminate ==
    /\ Followed
    /\ mode = "unwind"
    /\ Len(stack) > 0
    /\ Top.guards = <<>>
    /\ Top.kind = "dtor"
    /\ mode' = "terminated"
    /\ last' = NoDestruction
    /\ UNCHANGED <<guards, wrapping, calls, stack, inflight>>

Next ==
    \/ \E k \in {"block", "try"} : EnterScope(k)
    \/ \E kind \in Variants, ft \in FunctorTypes, a \in CtorArgs :
            \E copyThrows \in CopyCtorThrows(ft) :
                Construct(kind, ft, a, copyThrows)
    \/ \E kind \in Variants, ft \in FunctorTypes, a \in CtorArgs :
            \E copyThrows \in CopyCtorThrows(ft) :
                ConstructFails(kind, ft, a, copyThrows)
    \/ \E g \in GuardIds, copyThrows \in BOOLEAN :
            MoveConstruct(g, copyThrows)
    \/ \E g \in GuardIds, copyThrows \in BOOLEAN :
            MoveConstructFails(g, copyThrows)
    \/ \E g \in GuardIds : Release(g)
    \/ ExitDestroy
    \/ LeaveScope
    \/ Throw
    \/ UnwindDestroy
    \/ EnterDtor
    \/ UnwindPop
    \/ Catch
    \/ DtorTerminate

Spec == Init /\ [][Next]_vars

\* ------------------------------------------------------------------------
\* The same guards owned by objects whose lifetime is not a lexical scope
\* (members, std::optional, the free store): they are destroyed in any
\* order, and exceptions are raised and handled between any two operations.

\* An exception is raised and code goes on running while it is in flight
\* (the body of a destructor called by its unwinding).
Raise ==
    /\ Followed
    /\ mode = "run"
    /\ Len(inflight) < MaxCount
    /\ inflight' = Append(inflight, Raised)
    /\ last' = NoDestruction
    /\ UNCHANGED <<guards, wrapping, calls, stack, mode>>

\* After a failed construction or a raising destructor, code goes on
\* running while the exception is in flight.
Resume ==
    /\ Followed
    /\ mode = "unwind"
    /\ mode' = "run"
    /\ last' = NoDestruction
    /\ UNCHANGED <<guards, wrapping, calls, stack, inflight>>

\* The newest exception in flight is caught.
Handled ==
    /\ Followed
    /\ mode \in {"run", "unwind"}
    /\ inflight # <<>>
    /\ inflight' = Front(inflight)
    /\ mode' = "run"
    /\ last' = NoDestruction
    /\ UNCHANGED <<guards, wrapping, calls, stack>>

\* Any live guard is destroyed, by its owner or by unwinding.
DestroyAny(g) ==
    /\ mode \in {"run", "unwind"}
    /\ g \in LiveGuards
    /\ Destroy(g, IF mode = "unwind" THEN "unwind" ELSE "normal")

FreeNext ==
    \/ \E kind \in Variants, ft \in FunctorTypes, a \in CtorArgs :
            \E copyThrows \in CopyCtorThrows(ft) :
                Construct(kind, ft, a, copyThrows)
    \/ \E kind \in Variants, ft \in FunctorTypes, a \in CtorArgs :
            \E copyThrows \in CopyCtorThrows(ft) :
                Len(inflight) < MaxCount
                    /\ ConstructFails(kind, ft, a, copyThrows)
    \/ \E g \in GuardIds, copyThrows \in BOOLEAN :
            MoveConstruct(g, copyThrows)
    \/ \E g \in GuardIds, copyThrows \in BOOLEAN :
            Len(inflight) < MaxCount /\ MoveConstructFails(g, copyThrows)
    \/ \E g \in GuardIds : Release(g)
    \/ Raise
    \/ Resume
    \/ Handled
    \/ \E g \in GuardIds : DestroyAny(g)

SpecFree == Init /\ [][FreeNext]_vars

\* ------------------------------------------------------------------------
\* The constructors alone, applied to every function object type and every
\* argument the static requirements admit.
CtorNext ==
    \/ \E kind \in Variants, ft \in TraitFunctorTypes, a \in CtorArgs :
            \E copyThrows \in CopyCtorThrows(ft) :
                Constructible(ft, a) /\ Construct(kind, ft, a, copyThrows)
    \/ \E kind \in Variants, ft \in TraitFunctorTypes, a \in CtorArgs :
            \E copyThrows \in CopyCtorThrows(ft) :
                Constructible(ft, a)
                    /\ ConstructFails(kind, ft, a, copyThrows)
    \/ \E g \in GuardIds, copyThrows \in BOOLEAN :
            MoveConstruct(g, copyThrows)
    \/ \E g \in GuardIds, copyThrows \in BOOLEAN :
            MoveConstructFails(g, copyThrows)

SpecCtor == Init /\ [][CtorNext]_vars

\* ------------------------------------------------------------------------
\* Vocabulary of the properties.

Made == {g \in GuardIds : guards[g].st # "none"}

Dead == {g \in GuardIds : guards[g].st = "dead"}

\* Guards built by the wrapping constructor on which release() was never
\* called and which were never moved from.
Untouched(kind) ==
    {g \in Made : /\ guards[g].kind = kind
                  /\ guards[g].parent = 0
                  /\ ~guards[g].disarmed}

\* Guards of a variant that were never disarmed: release() was not called
\* on them, they were not moved from, and they were not move-constructed
\* from a disarmed guard.
Armed(kind) ==
    {g \in Made : guards[g].kind = kind /\ ~guards[g].disarmed}

\* The values std::uncaught_exceptions() can return.
AnyCount == 0..(MaxDepth + MaxCount + MaxGuards)

\* For some number of exceptions in flight, the destructor of the guard
\* object g would call the action.
CanCall(g) ==
    \E c \in AnyCount : DtorCalls(g, c)

\* Guard g is dead and its destructor was the last one to run.
JustDestroyed(g) ==
    guards[g].st = "dead" /\ last.g = g

\* The wrapping construction of a guard of this variant failed.
Failed(kind) ==
    wrapping.st = "failed" /\ wrapping.kind = kind

\* What a guard that is wrapped while c0 exceptions are in flight and then
\* only destroyed, while c are in flight, does with its action.
UnmovedCalls(kind, c0, c) ==
    LET r == Ctor(kind, "functor_t", FALSE, "rvalue", c0, FALSE)
    IN  DtorCalls([NoGuard EXCEPT
                    !.kind = kind,
                    !.execute_on_destruction = r.execute_on_destruction,
                    !.uncaught_on_creation = r.uncaught_on_creation], c)

\* ------------------------------------------------------------------------
\* C1: a scope_exit guard that was constructed and never released or moved
\* has not called its action while it is alive, and has called it exactly
\* once when it is destroyed, whether its scope was left normally or by an
\* exception.
GuardAlwaysOnce ==
    \A g \in Untouched("scope_exit") :
        /\ guards[g].st = "live" => calls = 0
        /\ guards[g].st = "dead" => guards[g].fired /\ calls = 1

GuardAlwaysOnceWitness ==
    \E g \in Untouched("scope_exit") :
        /\ JustDestroyed(g)
        /\ last.how = "unwind"
        /\ calls = 1

\* C2: a scope_success guard that was never disarmed, whether it wrapped
\* the action itself or received it by a move, calls the action exactly
\* once at destruction when no exception raised since the action was wrapped
\* is still in flight, and not at all when one is; it never calls while
\* alive.  For a guard that wrapped the action itself the first case is its
\* scope being left normally and the second its scope being left by an
\* exception.
GuardOnSuccess ==
    \A g \in Armed("scope_success") :
        /\ guards[g].st = "live" => calls = 0
        /\ guards[g].st = "dead" => calls = IF guards[g].fired THEN 1 ELSE 0
        /\ JustDestroyed(g) => (guards[g].fired <=> ~last.new)
        /\ JustDestroyed(g) /\ guards[g].parent = 0
                => (last.how = "unwind" <=> last.new)

GuardOnSuccessWitness ==
    \E g \in Untouched("scope_success") :
        /\ JustDestroyed(g)
        /\ last.how = "normal"
        /\ wrapping.base >= 1
        /\ calls = 1

\* C3: a scope_fail guard that was never disarmed does not call the action
\* at destruction when no exception raised since the action was wrapped is
\* in flight (for a guard that wrapped the action itself: when its scope is
\* left normally), and calls it exactly once when one is (when its scope is
\* left by an exception).
GuardOnFailure ==
    \A g \in Armed("scope_fail") :
        /\ guards[g].st = "live" => calls = 0
        /\ guards[g].st = "dead" => calls = IF guards[g].fired THEN 1 ELSE 0
        /\ JustDestroyed(g) => (guards[g].fired <=> last.new)
        /\ JustDestroyed(g) /\ guards[g].parent = 0
                => (last.how = "unwind" <=> last.new)

GuardOnFailureWitness ==
    \E g \in Untouched("scope_fail") :
        /\ JustDestroyed(g)
        /\ last.how = "unwind"
        /\ last.new
        /\ calls = 1

\* C4: a guard of any variant on which release() was called does not call
\* the action when it is destroyed, whatever the number of exceptions in
\* flight and however its scope is left, and while it lives no such number
\* would make its destructor call.
ReleasedNeverCalls ==
    \A g \in Made :
        guards[g].released =>
            /\ guards[g].st = "dead" => ~guards[g].fired
            /\ guards[g].st = "live" =>
                    \A c \in 0..(MaxDepth + MaxCount + MaxGuards) :
                        ~DtorCalls(guards[g], c)

ReleasedNeverCallsWitness ==
    \E g \in Made :
        /\ guards[g].released
        /\ guards[g].kind = "scope_fail"
        /\ JustDestroyed(g)
        /\ last.count > wrapping.base

\* C5: the action bound by one wrapping construction is called at most once
\* in total, by the constructor's handler and all guards moved from one
\* another together.
AtMostOnce ==
    calls <= 1

AtMostOnceWitness ==
    /\ calls = 1
    /\ Cardinality(Made) >= 2
    /\ Made \subseteq Dead

\* C6: when a wrapped guard is moved once, neither guard being released,
\* the moved-from guard does not call the action at its destruction and the
\* moved-to guard calls it exactly when the guard would have called it had
\* it not been moved and been destroyed with the same number of exceptions
\* in flight; together they call it as often as the unmoved guard.
MovedOnce(g1, g2) ==
    /\ g1 # 0
    /\ Made = {g1, g2}
    /\ ~guards[g1].released
    /\ ~guards[g2].released

MoveLaw ==
    \A g2 \in Made :
        MovedOnce(guards[g2].parent, g2) =>
            /\ ~guards[guards[g2].parent].fired
            /\ calls = IF guards[g2].fired THEN 1 ELSE 0
            /\ JustDestroyed(g2) =>
                    (guards[g2].fired <=>
                        UnmovedCalls(guards[g2].kind, wrapping.base,
                                     last.count))

MoveLawWitness ==
    \E g2 \in Made :
        /\ MovedOnce(guards[g2].parent, g2)
        /\ guards[guards[g2].parent].st = "dead"
        /\ JustDestroyed(g2)
        /\ guards[g2].kind = "scope_fail"
        /\ wrapping.base >= 1
        /\ guards[g2].fired
        /\ calls = 1

\* C7: when the initialisation of scope_exit's function object raises, the
\* argument's action has been called exactly once by the time the error
\* leaves the constructor, that error is the one of the initialisation
\* (the action itself not raising), and no guard exists.
ExitCtorFailure ==
    Failed("scope_exit") =>
        /\ calls = 1
        /\ ~ActionThrows(wrapping.ftype) => wrapping.raised = "init"
        /\ Made = {}

ExitCtorFailureWitness ==
    /\ Failed("scope_exit")
    /\ calls = 1
    /\ wrapping.raised = "init"
    /\ mode = "unwind"
    /\ inflight # <<>>

\* C8: when the initialisation of scope_success's function object raises,
\* the error of the initialisation leaves the constructor, the action is
\* never called and no guard exists.
SuccessCtorFailure ==
    Failed("scope_success") =>
        /\ calls = 0
        /\ wrapping.raised = "init"
        /\ Made = {}

SuccessCtorFailureWitness ==
    /\ Failed("scope_success")
    /\ calls = 0
    /\ mode = "run"
    /\ inflight = <<>>

\* C9: when the initialisation of scope_fail's function object raises, the
\* argument's action has been called exactly once by the time the error
\* leaves the constructor, whatever the number of exceptions in flight.
FailCtorFailure ==
    Failed("scope_fail") =>
        /\ calls = 1
        /\ Made = {}

FailCtorFailureWitness ==
    /\ Failed("scope_fail")
    /\ calls = 1
    /\ wrapping.base >= 1
    /\ mode = "unwind"

\* C10: a scope_success guard that was never disarmed calls its action at
\* destruction if and only if the number of exceptions in flight then is not
\* greater than the number in flight when its action was wrapped.
SuccessRule ==
    \A g \in Armed("scope_success") :
        JustDestroyed(g) => (guards[g].fired <=> last.count <= wrapping.base)

SuccessRuleWitness ==
    \E g \in Armed("scope_success") :
        /\ JustDestroyed(g)
        /\ guards[g].fired
        /\ wrapping.base >= 1
        /\ last.count = wrapping.base

\* C11: a scope_fail guard that was never disarmed calls its action at
\* destruction if and only if the number of exceptions in flight then is
\* greater than the number in flight when its action was wrapped; a guard
\* built while an exception was in flight and destroyed with the same number
\* in flight does not call.
FailRule ==
    \A g \in Armed("scope_fail") :
        JustDestroyed(g) => (guards[g].fired <=> last.count > wrapping.base)

FailRuleWitness ==
    \E g \in Armed("scope_fail") :
        /\ JustDestroyed(g)
        /\ ~guards[g].fired
        /\ wrapping.base >= 1
        /\ last.count = wrapping.base

\* C12: a guard that a move constructor has moved from never calls the
\* action: while it lives no number of exceptions in flight would make its
\* destructor call, and its destructor has not called when it is dead.
MovedFromDisarmed ==
    \A g \in Made :
        guards[g].moved =>
            /\ guards[g].st = "live" => ~CanCall(guards[g])
            /\ guards[g].st = "dead" => ~guards[g].fired

MovedFromDisarmedWitness ==
    \E g \in Made :
        /\ guards[g].moved
        /\ ~guards[g].released
        /\ guards[g].kind = "scope_success"
        /\ JustDestroyed(g)
        /\ last.count <= wrapping.base
        /\ ~guards[g].fired

\* C13: release() is idempotent: on a guard on which release() was already
\* called a further call changes nothing, and on any live guard two calls
\* leave the state one call leaves.
ReleaseIdempotent ==
    \A g \in LiveGuards :
        /\ guards[g].released => ReleaseOf(guards[g]) = guards[g]
        /\ ReleaseOf(ReleaseOf(guards[g])) = ReleaseOf(guards[g])

ReleaseIdempotentWitness ==
    \E g \in LiveGuards :
        /\ guards[g].released
        /\ guards[g].kind = "scope_success"
        /\ wrapping.base >= 1
        /\ guards[g].uncaught_on_creation = -1

\* C14: among the live guards that carry the action of one wrapping
\* construction at most one is able to call it at its destruction.
ExclusiveOwnership ==
    Cardinality({g \in LiveGuards : CanCall(guards[g])}) <= 1

ExclusiveOwnershipWitness ==
    \E g \in LiveGuards :
        /\ guards[g].parent \in LiveGuards
        /\ guards[g].kind = "scope_fail"
        /\ CanCall(guards[g])
        /\ ~CanCall(guards[guards[g].parent])

\* C15: a constructor initialises the guard's function object from an
\* rvalue (moves) if and only if its argument is not an lvalue reference and
\* constructing the stored type from an rvalue cannot raise; otherwise it
\* initialises it from the argument as an lvalue (copies, or binds when a
\* reference is stored).  The argument of a move constructor is the source
\* guard's function object, an rvalue.
MoveOrCopy ==
    last.how \in {"construct", "move"} =>
        (last.init = "rvalue"
            <=> /\ last.arg = "rvalue"
                /\ ~wrapping.byRef
                /\ NothrowMove(wrapping.ftype))

MoveOrCopyWitness ==
    /\ last.how = "construct"
    /\ last.out = "returned"
    /\ last.arg = "rvalue"
    /\ ~NothrowMove(wrapping.ftype)
    /\ last.init = "lvalue"

\* Guard g called a raising action in its destructor, the latest step.
RaisedAtDestruction(g) ==
    /\ JustDestroyed(g)
    /\ guards[g].fired
    /\ ActionThrows(wrapping.ftype)

\* C16: the destructor of scope_success is non-throwing exactly when the
\* call of the action is statically non-throwing: with such an action it
\* always returns, and an error raised by an action that can throw leaves
\* the destructor, whether the function object is stored by value or by
\* reference.
SuccessDtorClass ==
    \A g \in Made :
        guards[g].kind = "scope_success" /\ JustDestroyed(g) =>
            /\ DtorNoexcept("scope_success", wrapping.ftype)
                    <=> ActionNoexcept(wrapping.ftype)
            /\ ActionNoexcept(wrapping.ftype) => last.out = "returned"
            /\ RaisedAtDestruction(g) /\ last.how = "normal"
                    => last.out = "raised" /\ mode = "unwind"

SuccessDtorClassWitness ==
    \E g \in Made :
        /\ guards[g].kind = "scope_success"
        /\ wrapping.byRef
        /\ RaisedAtDestruction(g)
        /\ last.how = "normal"
        /\ last.out = "raised"

\* C17 as claimed: when an armed scope_exit guard is destroyed, the
\* destructor returns if the action is statically non-throwing, and an error
\* raised by the action leaves the destructor for the enclosing code.
ExitDtorPropagates ==
    \A g \in Made :
        guards[g].kind = "scope_exit" /\ JustDestroyed(g) /\ guards[g].fired
            => /\ ActionNoexcept(wrapping.ftype) => last.out = "returned"
               /\ RaisedAtDestruction(g) /\ last.how = "normal"
                    => last.out = "raised"

\* C17 as amended: when an armed scope_exit guard is destroyed, the
\* destructor returns if the action is statically non-throwing; an error
\* raised by the action never leaves the destructor, which is non-throwing
\* for want of an exception specification: the program is terminated.
ExitDtorTerminates ==
    \A g \in Made :
        guards[g].kind = "scope_exit" /\ JustDestroyed(g) /\ guards[g].fired
            => /\ ActionNoexcept(wrapping.ftype) => last.out = "returned"
               /\ last.out # "raised"
               /\ RaisedAtDestruction(g)
                    => last.out = "terminated" /\ mode = "terminated"

ExitDtorTerminatesWitness ==
    \E g \in Made :
        /\ guards[g].kind = "scope_exit"
        /\ RaisedAtDestruction(g)
        /\ last.how = "normal"
        /\ last.count = 0
        /\ mode = "terminated"

\* C18 as claimed: when the action raises in a destructor, the action has
\* been called once, the destructor does not return normally, and the error
\* either leaves the destructor or, an unwinding being already active, the
\* program is terminated.
NotMaskedPropagatesOrUnwinding ==
    \A g \in Made :
        RaisedAtDestruction(g) =>
            /\ calls = 1
            /\ last.out \in {"raised", "terminated"}
            /\ last.out = "terminated" => last.how = "unwind" \/ last.count > 0

\* C18 as amended: when the action raises in a destructor, the action has
\* been called once and the destructor does not return normally: the error
\* leaves the destructor of a scope_success guard that is not destroyed by
\* an unwinding, and otherwise (an unwinding being active, or the destructor
\* being the non-throwing one of scope_exit or scope_fail) the program is
\* terminated.
NotMasked ==
    \A g \in Made :
        RaisedAtDestruction(g) =>
            /\ calls = 1
            /\ last.out \in {"raised", "terminated"}
            /\ last.out = "raised" <=>
                    guards[g].kind = "scope_success" /\ last.how = "normal"
            /\ last.out = "raised" => mode = "unwind"
            /\ last.out = "terminated" => mode = "terminated"

NotMaskedWitness ==
    \E g \in Made :
        /\ RaisedAtDestruction(g)
        /\ guards[g].kind = "scope_fail"
        /\ last.out = "terminated"
        /\ calls = 1

\* The data members of guard object g other than the one release() assigns.
OtherMembers(g) ==
    [g EXCEPT !.execute_on_destruction = TRUE, !.uncaught_on_creation = 0,
              !.released = TRUE, !.disarmed = TRUE]

\* C19: a call of release(), on a guard that is armed, already released or
\* moved from, returns without raising, does not call the action, leaves
\* the function object and everything but the guard's disarming member as
\* they were, and leaves the guard unable to call.
ReleaseOnlyDisarms ==
    [][\A g \in GuardIds :
        last'.how = "release" /\ last'.g = g =>
            /\ last'.out = "returned"
            /\ mode' = mode /\ inflight' = inflight
            /\ calls' = calls
            /\ wrapping' = wrapping
            /\ stack' = stack
            /\ \A h \in GuardIds \ {g} : guards'[h] = guards[h]
            /\ OtherMembers(guards'[g]) = OtherMembers(guards[g])
            /\ ~CanCall(guards'[g])]_vars

ReleaseOnlyDisarmsWitness ==
    \E g \in LiveGuards :
        /\ last.how = "release"
        /\ last.g = g
        /\ guards[g].moved
        /\ inflight # <<>>
        /\ calls = 0

\* Guard g was move-constructed from a guard that had been released or
\* moved from, and nothing has been done to g itself since.
BornDisarmed(g) ==
    /\ guards[g].parent # 0
    /\ guards[g].disarmed
    /\ ~guards[g].released
    /\ ~guards[g].moved

Released(kind) ==
    {g \in Made : guards[g].kind = kind /\ guards[g].released}

\* C22 as claimed: the baseline of a released scope_success guard is a value
\* the number of exceptions in flight never exceeds.
SuccessSentinelNotExceeded ==
    \A g \in Released("scope_success") :
        ~(uncaught_exceptions > guards[g].uncaught_on_creation)

\* C22 as amended: the baseline of a released scope_success guard is a value
\* below every number of exceptions that can be in flight, so that number
\* always exceeds it and the destructor's comparison is false for every
\* count.
SuccessSentinelBelow ==
    \A g \in Released("scope_success") :
        /\ guards[g].uncaught_on_creation < 0
        /\ uncaught_exceptions > guards[g].uncaught_on_creation
        /\ \A c \in AnyCount : ~scope_success_dtor(guards[g], c)

SuccessSentinelBelowWitness ==
    \E g \in Released("scope_success") :
        /\ guards[g].st = "live"
        /\ wrapping.base >= 1
        /\ uncaught_exceptions = 0
        /\ guards[g].uncaught_on_creation = -1

\* C23: the baseline of a released scope_fail guard is the largest int, so
\* it is never less than the number of exceptions in flight and the
\* destructor's comparison is false for every count an int can hold.
FailSentinelMax ==
    \A g \in Released("scope_fail") :
        /\ guards[g].uncaught_on_creation = IntMax
        /\ ~(guards[g].uncaught_on_creation < uncaught_exceptions)
        /\ \A c \in AnyCount \cup {IntMax} : ~scope_fail_dtor(guards[g], c)

FailSentinelMaxWitness ==
    \E g \in Released("scope_fail") :
        /\ guards[g].st = "live"
        /\ wrapping.base = 0
        /\ uncaught_exceptions >= 1
        /\ guards[g].uncaught_on_creation = IntMax

\* C24: disarming is one-way: whatever step follows (release(), a move
\* from the guard, an exception raised or caught, the guard's destruction),
\* a live guard whose destructor would call for no number of exceptions in
\* flight stays such a guard, and its destructor does not call.
DisarmOneWay ==
    [][\A g \in GuardIds :
        guards[g].st = "live" /\ ~CanCall(guards[g]) =>
            /\ ~CanCall(guards'[g])
            /\ ~guards'[g].fired]_vars

DisarmOneWayWitness ==
    \E g \in Made :
        /\ guards[g].kind = "scope_exit"
        /\ guards[g].released
        /\ guards[g].moved
        /\ uncaught_exceptions # wrapping.base
        /\ JustDestroyed(g)
        /\ ~guards[g].fired

\* The variant with the opposite policy.
Counterpart(kind) ==
    IF kind = "scope_success" THEN "scope_fail" ELSE "scope_success"

\* C25: of a scope_success guard and a scope_fail guard wrapped with the
\* same number of exceptions in flight and never disarmed, exactly one calls
\* its action at destruction, whatever the number in flight then: the
\* decision of a guard of one variant is the negation of the decision a
\* guard of the other variant with its baseline would take.
Complement ==
    \A g \in Armed("scope_success") \cup Armed("scope_fail") :
        /\ guards[g].st = "live" =>
                \A c \in AnyCount :
                    DtorCalls(guards[g], c)
                        <=> ~UnmovedCalls(Counterpart(guards[g].kind),
                                          wrapping.base, c)
        /\ JustDestroyed(g) =>
                (guards[g].fired
                    <=> ~UnmovedCalls(Counterpart(guards[g].kind),
                                      wrapping.base, last.count))

ComplementWitness ==
    \E g \in Armed("scope_fail") :
        /\ JustDestroyed(g)
        /\ wrapping.base >= 1
        /\ last.count < wrapping.base
        /\ ~guards[g].fired
        /\ UnmovedCalls("scope_success", wrapping.base, last.count)

\* C26: a wrapping construction that succeeds, a move construction that
\* succeeds and a call of release() leave the number of calls of the action
\* as it was: only destructors call the action of a guard.
OnlyDestructorsCall ==
    [][last'.how \in {"construct", "move", "release"}
            /\ last'.out = "returned"
        => calls' = calls]_vars

OnlyDestructorsCallWitness ==
    /\ last.how = "move"
    /\ last.out = "returned"
    /\ guards[last.g].kind = "scope_fail"
    /\ uncaught_exceptions > wrapping.base
    /\ calls = 0

\* C27: a guard that stores a reference binds it to the caller's function
\* object: no constructor of the function object runs, so neither the
\* wrapping nor a move construction can fail, even for a function object
\* whose copy constructor always raises; and the guard calls by the policy
\* of its variant, as a guard storing a copy does.
ByReference ==
    wrapping.byRef =>
        /\ wrapping.st # "failed"
        /\ last.how \in {"construct", "move"} =>
                last.init = "lvalue" /\ last.out = "returned"
        /\ \A g \in Armed(wrapping.kind) :
                JustDestroyed(g) =>
                    /\ guards[g].fired
                            <=> UnmovedCalls(wrapping.kind, wrapping.base,
                                             last.count)
                    /\ calls = IF guards[g].fired THEN 1 ELSE 0

ByReferenceWitness ==
    \E g \in Armed(wrapping.kind) :
        /\ wrapping.byRef
        /\ wrapping.ftype = "init_failure_functor_t"
        /\ guards[g].parent # 0
        /\ JustDestroyed(g)
        /\ guards[g].fired
        /\ calls = 1

\* C28: a constructor is declared noexcept exactly when the initialisation
\* it selects cannot raise, and a constructor declared noexcept does not
\* raise: this holds of the wrapping constructor for every argument and of
\* the move constructor, whatever the function object's move and copy
\* constructors promise.
NoexceptAgrees ==
    /\ last.how = "construct" =>
            /\ ctor_noexcept(wrapping.ftype, wrapping.byRef, last.arg)
                    <=> is_nothrow_constructible(wrapping.ftype,
                                                 wrapping.byRef, last.init)
            /\ ctor_noexcept(wrapping.ftype, wrapping.byRef, last.arg)
                    => last.out = "returned"
    /\ last.how = "move" =>
            /\ move_ctor_noexcept(wrapping.ftype, wrapping.byRef)
                    <=> is_nothrow_constructible(wrapping.ftype,
                                                 wrapping.byRef, last.init)
            /\ move_ctor_noexcept(wrapping.ftype, wrapping.byRef)
                    => last.out = "returned"

NoexceptAgreesWitness ==
    /\ last.how = "construct"
    /\ wrapping.ftype = "move_throws_functor_t"
    /\ ~wrapping.byRef
    /\ last.arg = "rvalue"
    /\ last.init = "lvalue"
    /\ ctor_noexcept(wrapping.ftype, wrapping.byRef, last.arg)
    /\ last.out = "returned"

\* C29: a move construction whose initialisation of the function object
\* raises calls the action not at all, makes no new guard and leaves every
\* guard, the source among them, with the flag and baseline it had, so the
\* source's destructor decides as it would have without the move.
FailedMoveKeepsSource ==
    [][last'.how = "move" /\ last'.out = "raised" =>
            /\ calls' = calls
            /\ guards' = guards
            /\ stack' = stack]_vars

FailedMoveKeepsSourceWitness ==
    /\ last.how = "move"
    /\ last.out = "raised"
    /\ wrapping.kind = "scope_fail"
    /\ calls = 0
    /\ \E g \in Armed("scope_fail") :
            /\ guards[g].st = "live"
            /\ guards[g].uncaught_on_creation = wrapping.base
            /\ DtorCalls(guards[g], uncaught_exceptions)

\* Guards of scope_fail and scope_success that were move-constructed from
\* an armed guard and have not been disarmed since.
MovedToArmed ==
    {g \in Armed("scope_fail") \cup Armed("scope_success") :
        guards[g].parent # 0}

\* C30: a scope_fail or scope_success guard move-constructed from an armed
\* guard stores the number of exceptions that were in flight at the
\* wrapping construction, not the number in flight at the move, and its
\* destructor compares the number then in flight with that stored one.
MoveCopiesBaseline ==
    \A g \in MovedToArmed :
        /\ guards[g].uncaught_on_creation = wrapping.base
        /\ JustDestroyed(g) =>
                (guards[g].fired <=>
                    IF guards[g].kind = "scope_fail"
                    THEN last.count > wrapping.base
                    ELSE last.count <= wrapping.base)

MoveCopiesBaselineWitness ==
    \E g \in MovedToArmed :
        /\ guards[g].kind = "scope_success"
        /\ last.how = "move"
        /\ last.g = g
        /\ uncaught_exceptions # wrapping.base
        /\ guards[g].uncaught_on_creation # uncaught_exceptions

\* C31: a wrapping construction that fails has initialised the function
\* object from an lvalue, that is by copy, even when the argument was an
\* rvalue: the argument was not moved from, and the handler of scope_exit
\* and scope_fail has called it, once.
FailureLeavesArgument ==
    last.how = "construct" /\ last.out = "raised" =>
        /\ last.init = "lvalue"
        /\ ~wrapping.byRef
        /\ last.arg = "rvalue" => ~NothrowMove(wrapping.ftype)
        /\ wrapping.kind \in {"scope_exit", "scope_fail"} => calls = 1

FailureLeavesArgumentWitness ==
    /\ last.how = "construct"
    /\ last.out = "raised"
    /\ last.arg = "rvalue"
    /\ last.init = "lvalue"
    /\ wrapping.ftype = "fallible_copy_functor_t"
    /\ MoveCtorThrows(wrapping.ftype)
    /\ wrapping.kind = "scope_fail"
    /\ calls = 1

\* C32: when the wrapping construction of a scope_exit or scope_fail fails,
\* one error reaches the caller: the one the action raised in the handler
\* when the action raises, the one of the initialisation when the action
\* completes.
HandlerErrorReplaces ==
    Failed("scope_exit") \/ Failed("scope_fail") =>
        /\ wrapping.raised =
                IF ActionThrows(wrapping.ftype) THEN "action" ELSE "init"
        /\ last.how = "construct" =>
                /\ last.out = "raised"
                /\ uncaught_exceptions = wrapping.base + 1
                /\ calls = 1

HandlerErrorReplacesWitness ==
    /\ Failed("scope_fail")
    /\ ActionThrows(wrapping.ftype)
    /\ wrapping.raised = "action"
    /\ last.how = "construct"
    /\ last.out = "raised"
    /\ calls = 1

====
